---------------------------- MODULE Spec2Model ----------------------------
(***************************************************************************)
(* OAuth 2.0 client of inth-oauth2 (src/src/client/mod.rs): the client's   *)
(* authorization URI, the token request, the token refresh and             *)
(* ensure_token, against a provider descriptor, a clock and a token        *)
(* endpoint whose answers are nondeterministic.                            *)
(*                                                                         *)
(* Strings are sequences of chunks.  A value supplied by the caller or the *)
(* server is one chunk per character; a literal of the program whose       *)
(* characters are all unreserved ("response_type", "code", ...) is one     *)
(* chunk.  Option<T> is a sequence of length at most one: None is << >>,   *)
(* Some(x) is <<x>>.                                                       *)
(***************************************************************************)
EXTENDS Integers, Sequences, FiniteSets, TLC

VARIABLES provider, client, now, held, serverSecret, refreshSent, streak, last,
          calls

vars == <<provider, client, now, held, serverSecret, refreshSent, streak, last,
          calls>>

(***************************************************************************)
(* Bounds of the model.                                                    *)
(***************************************************************************)
MaxTime == 1

MaxExpiresIn == 1

None == << >>

Some(x) == <<x>>

IsSome(o) == Len(o) = 1

Unwrap(o) == o[1]

(***************************************************************************)
(* The values the caller and the server draw from.                         *)
(***************************************************************************)
Credentials == { << <<"f", "o", "o">>, <<"b", "a", "r">> >>,
                 << <<"a", "&", "b">>, <<"s", "=">> >> }

RedirectUris == { <<"u", ":", "/", "c">> }

ScopeArgs == { None, Some(<<"x", " ", "y">>) }

StateArgs == { None, Some(<<"b", "a", "z">>) }

Codes == { <<"c", "0">> }

AccessTokens == { "AT1" }

RefreshSecrets == { <<"R", "1">>, <<"R", "2">> }

ErrorCodes == { "invalid_grant" }

ExpiresInValues == (0 - 1) .. MaxExpiresIn

ValidAuthUri == <<"http://example.com/oauth2/auth">>

InvalidAuthUri == <<"n", "o", " ", "u", "r", "l">>

TokenUri == <<"http://example.com/oauth2/token">>


(***************************************************************************)
(* url crate: application/x-www-form-urlencoded.  A space becomes "+", an  *)
(* unreserved character stays, every other character becomes "%XX".        *)
(***************************************************************************)
Unreserved == { "a", "b", "c", "f", "o", "r", "s", "u", "x", "y", "z",
                "R", "0", "1", "2" }

PercentCode(c) ==
    CASE c = ":" -> <<"%", "3", "A">>
      [] c = "/" -> <<"%", "2", "F">>
      [] c = "&" -> <<"%", "2", "6">>
      [] c = "=" -> <<"%", "3", "D">>
      [] c = "+" -> <<"%", "2", "B">>
      [] c = "%" -> <<"%", "2", "5">>
      [] OTHER   -> <<"%", "3", "F">>

(* Literals of the program, each one chunk of unreserved characters. *)
LiteralChunks == { "code", "authorization_code", "refresh_token" }

byte_serialize_char(c) ==
    IF c = " " THEN <<"+">>
    ELSE IF c \in Unreserved \cup LiteralChunks THEN <<c>>
    ELSE PercentCode(c)

RECURSIVE byte_serialize(_)
byte_serialize(s) ==
    IF s = << >> THEN << >>
    ELSE byte_serialize_char(Head(s)) \o byte_serialize(Tail(s))

(* A pair is <<name, value>>; a name is a literal of the program. *)
RECURSIVE form_urlencoded_serialize(_)
form_urlencoded_serialize(pairs) ==
    IF pairs = << >> THEN << >>
    ELSE LET p == Head(pairs)
             one == <<p[1], "=">> \o byte_serialize(p[2])
         IN  IF Len(pairs) = 1 THEN one
             ELSE one \o <<"&">> \o form_urlencoded_serialize(Tail(pairs))

(* Url::parse: the provider's URL is a syntactically valid absolute URL. *)
Url_parse_ok(s) == s \in { ValidAuthUri, TokenUri }

(* Url::set_query_from_pairs, then Url::serialize. *)
set_query_and_serialize(uri, pairs) ==
    uri \o <<"?">> \o form_urlencoded_serialize(pairs)

(***************************************************************************)
(* Results and errors (ClientError).                                       *)
(***************************************************************************)
NoError == [kind |-> "", detail |-> ""]

Error(k, d) == [kind |-> k, detail |-> d]

NoToken == None

Ok_uri(u) == [ok |-> TRUE, uri |-> u, token |-> NoToken, err |-> NoError]

Ok_token(t) == [ok |-> TRUE, uri |-> << >>, token |-> Some(t), err |-> NoError]

Err(e) == [ok |-> FALSE, uri |-> << >>, token |-> NoToken, err |-> e]

(***************************************************************************)
(* Client::auth_uri.                                                       *)
(***************************************************************************)
(* A faulty variant: the client secret is put in the query. *)
auth_uri_pairs_with_secret(c, scope, state) ==
    << <<"response_type", <<"code">> >>, <<"client_id", c.client_id>>,
       <<"client_secret", c.client_secret>> >>
    \o (IF IsSome(c.redirect_uri)
        THEN << <<"redirect_uri", Unwrap(c.redirect_uri)>> >> ELSE << >>)
    \o (IF IsSome(scope) THEN << <<"scope", Unwrap(scope)>> >> ELSE << >>)
    \o (IF IsSome(state) THEN << <<"state", Unwrap(state)>> >> ELSE << >>)

(* A faulty variant: scope is pushed before redirect_uri. *)
auth_uri_pairs_scope_first(c, scope, state) ==
    << <<"response_type", <<"code">> >>, <<"client_id", c.client_id>> >>
    \o (IF IsSome(scope) THEN << <<"scope", Unwrap(scope)>> >> ELSE << >>)
    \o (IF IsSome(c.redirect_uri)
        THEN << <<"redirect_uri", Unwrap(c.redirect_uri)>> >> ELSE << >>)
    \o (IF IsSome(state) THEN << <<"state", Unwrap(state)>> >> ELSE << >>)

auth_uri_pairs(c, scope, state) ==
    << <<"response_type", <<"code">> >>, <<"client_id", c.client_id>> >>
    \o (IF IsSome(c.redirect_uri)
        THEN << <<"redirect_uri", Unwrap(c.redirect_uri)>> >> ELSE << >>)
    \o (IF IsSome(scope) THEN << <<"scope", Unwrap(scope)>> >> ELSE << >>)
    \o (IF IsSome(state) THEN << <<"state", Unwrap(state)>> >> ELSE << >>)

(* A faulty variant: a client without a redirect_uri is refused. *)
auth_uri_needs_redirect(p, c, scope, state) ==
    IF ~Url_parse_ok(p.auth_uri) \/ ~IsSome(c.redirect_uri)
    THEN Err(Error("UriError", ""))
    ELSE Ok_uri(set_query_and_serialize(p.auth_uri, auth_uri_pairs(c, scope, state)))

auth_uri(p, c, scope, state) ==
    IF ~Url_parse_ok(p.auth_uri) THEN Err(Error("UriError", ""))
    ELSE Ok_uri(set_query_and_serialize(p.auth_uri, auth_uri_pairs(c, scope, state)))

(***************************************************************************)
(* The token endpoint's answers: a transport failure, a body that is not   *)
(* JSON, or a JSON object with any of the RFC 6749 fields.                 *)
(***************************************************************************)
NoFields == [error |-> None, access_token |-> None, expires_in |-> None,
             refresh_token |-> None]

FullFields == [error |-> None, access_token |-> Some("AT1"), expires_in |-> Some(1),
               refresh_token |-> Some(<<"R", "1">>)]

(* Bodies with a usable access_token and every lifetime field combination. *)
TokenBodies ==
    [ error         : {None},
      access_token  : { Some(a) : a \in AccessTokens },
      expires_in    : {None} \cup { Some(n) : n \in ExpiresInValues },
      refresh_token : {None, Some(<< >>)} \cup { Some(r) : r \in RefreshSecrets } ]

(* Bodies with an `error` field, alone or beside a whole token response;   *)
(* bodies whose access_token is missing or empty.                          *)
JsonBodies ==
    TokenBodies
    \cup { [b EXCEPT !.error = Some(e)] : b \in {NoFields, FullFields}, e \in ErrorCodes }
    \cup { [b EXCEPT !.access_token = a] : b \in {NoFields, FullFields},
                                          a \in {None, Some("")} }

Responses ==
    { [kind |-> "transport_error", json |-> NoFields],
      [kind |-> "not_json", json |-> NoFields] }
    \cup { [kind |-> "json", json |-> j] : j \in JsonBodies }

(***************************************************************************)
(* token module: Lifetime (Expiring, Static) and Bearer<L>, as the         *)
(* specification describes them (sections 3 and 4.2): access_token is a    *)
(* required non-empty string; an Expiring lifetime needs expires_in and a  *)
(* refresh secret, which is never empty once constructed and is inherited  *)
(* from the previous token when a refresh response omits it.               *)
(***************************************************************************)
StaticLifetime == [kind |-> "Static", expires |-> 0, refresh_token |-> << >>]

ExpiringLifetime(at, r) == [kind |-> "Expiring", expires |-> at, refresh_token |-> r]

(* Lifetime::expired *)
expired(l, t) == IF l.kind = "Static" THEN FALSE ELSE t >= l.expires

Bearer(a, l) == [access_token |-> a, lifetime |-> l]

(* FromResponse for the lifetime; inherit is the previous lifetime or None. *)
lifetime_from_response(kind, json, t, inherit) ==
    IF kind = "Static" THEN [ok |-> TRUE, lifetime |-> StaticLifetime, err |-> NoError]
    ELSE IF ~IsSome(json.expires_in)
    THEN [ok |-> FALSE, lifetime |-> StaticLifetime,
          err |-> Error("TokenFormatError", "MissingField")]
    ELSE IF IsSome(json.refresh_token)
    THEN IF Unwrap(json.refresh_token) = << >>
         THEN [ok |-> FALSE, lifetime |-> StaticLifetime,
               err |-> Error("TokenFormatError", "InvalidField")]
         ELSE [ok |-> TRUE, err |-> NoError,
               lifetime |-> ExpiringLifetime(t + Unwrap(json.expires_in),
                                             Unwrap(json.refresh_token))]
    ELSE IF IsSome(inherit)
    THEN [ok |-> TRUE, err |-> NoError,
          lifetime |-> ExpiringLifetime(t + Unwrap(json.expires_in),
                                        Unwrap(inherit).refresh_token)]
    ELSE [ok |-> FALSE, lifetime |-> StaticLifetime,
          err |-> Error("TokenFormatError", "MissingField")]

bearer_from_response(kind, json, t, inherit) ==
    IF ~IsSome(json.access_token) THEN Err(Error("TokenFormatError", "MissingField"))
    ELSE IF Unwrap(json.access_token) = "" THEN Err(Error("TokenFormatError", "InvalidField"))
    ELSE LET l == lifetime_from_response(kind, json, t, inherit)
         IN  IF l.ok THEN Ok_token(Bearer(Unwrap(json.access_token), l.lifetime))
             ELSE Err(l.err)

(* P::Token::from_response *)
from_response(p, json, t) == bearer_from_response(p.lifetime, json, t, None)

(* P::Token::from_response_inherit *)
from_response_inherit(p, json, t, token) ==
    bearer_from_response(p.lifetime, json, t, Some(token.lifetime))

(* OAuth2Error::from_response (specification sections 4.4 and 6): Ok       *)
(* exactly for a body with an `error` field.                               *)
OAuth2Error_from_response_ok(json) == IsSome(json.error)

(***************************************************************************)
(* Client::post_token: the requests it sends and what it returns, given    *)
(* the endpoint's answer.                                                  *)
(***************************************************************************)
Request(p, c, body) ==
    [ uri           |-> p.token_uri,
      authorization |-> [username |-> c.client_id, password |-> Some(c.client_secret)],
      accept        |-> "application/json",
      content_type  |-> "application/x-www-form-urlencoded",
      body          |-> body ]

JsonOk(j) == [ok |-> TRUE, json |-> j, err |-> NoError]

JsonErr(e) == [ok |-> FALSE, json |-> NoFields, err |-> e]

(* A faulty variant: a body that is not JSON is read as an empty object. *)
post_token_not_json_as_empty(p, c, body_pairs, resp) ==
    LET pairs == IF p.credentials_in_body
                 THEN body_pairs \o << <<"client_id", c.client_id>>,
                                       <<"client_secret", c.client_secret>> >>
                 ELSE body_pairs
        body  == form_urlencoded_serialize(pairs)
    IN  [ sent   |-> << Request(p, c, body) >>,
          result |-> IF resp.kind = "transport_error"
                     THEN JsonErr(Error("TransportError", ""))
                     ELSE IF OAuth2Error_from_response_ok(resp.json)
                     THEN JsonErr(Error("ProviderError", Unwrap(resp.json.error)))
                     ELSE JsonOk(resp.json) ]

(* A faulty variant: the credentials are put in the body for every provider. *)
post_token_always_credentials(p, c, body_pairs, resp) ==
    LET pairs == body_pairs \o << <<"client_id", c.client_id>>,
                                  <<"client_secret", c.client_secret>> >>
        body  == form_urlencoded_serialize(pairs)
    IN  [ sent   |-> << Request(p, c, body) >>,
          result |-> IF resp.kind = "transport_error"
                     THEN JsonErr(Error("TransportError", ""))
                     ELSE IF resp.kind = "not_json"
                     THEN JsonErr(Error("ParseError", ""))
                     ELSE IF OAuth2Error_from_response_ok(resp.json)
                     THEN JsonErr(Error("ProviderError", Unwrap(resp.json.error)))
                     ELSE JsonOk(resp.json) ]

(* A faulty variant: the request is sent again after a transport failure. *)
post_token_retry(p, c, body_pairs, resp) ==
    LET pairs == IF p.credentials_in_body
                 THEN body_pairs \o << <<"client_id", c.client_id>>,
                                       <<"client_secret", c.client_secret>> >>
                 ELSE body_pairs
        body  == form_urlencoded_serialize(pairs)
    IN  [ sent   |-> IF resp.kind = "transport_error"
                     THEN << Request(p, c, body), Request(p, c, body) >>
                     ELSE << Request(p, c, body) >>,
          result |-> IF resp.kind = "transport_error"
                     THEN JsonErr(Error("TransportError", ""))
                     ELSE IF resp.kind = "not_json"
                     THEN JsonErr(Error("ParseError", ""))
                     ELSE IF OAuth2Error_from_response_ok(resp.json)
                     THEN JsonErr(Error("ProviderError", Unwrap(resp.json.error)))
                     ELSE JsonOk(resp.json) ]

(* A faulty variant: a body with an access_token is taken for a token response     *)
(* before the error shape is looked for.                                 *)
post_token_token_first(p, c, body_pairs, resp) ==
    LET pairs == IF p.credentials_in_body
                 THEN body_pairs \o << <<"client_id", c.client_id>>,
                                       <<"client_secret", c.client_secret>> >>
                 ELSE body_pairs
        body  == form_urlencoded_serialize(pairs)
    IN  [ sent   |-> << Request(p, c, body) >>,
          result |-> IF resp.kind = "transport_error"
                     THEN JsonErr(Error("TransportError", ""))
                     ELSE IF resp.kind = "not_json"
                     THEN JsonErr(Error("ParseError", ""))
                     ELSE IF IsSome(resp.json.access_token)
                     THEN JsonOk(resp.json)
                     ELSE IF OAuth2Error_from_response_ok(resp.json)
                     THEN JsonErr(Error("ProviderError", Unwrap(resp.json.error)))
                     ELSE JsonOk(resp.json) ]

post_token(p, c, body_pairs, resp) ==
    LET pairs == IF p.credentials_in_body
                 THEN body_pairs \o << <<"client_id", c.client_id>>,
                                       <<"client_secret", c.client_secret>> >>
                 ELSE body_pairs
        body  == form_urlencoded_serialize(pairs)
    IN  [ sent   |-> << Request(p, c, body) >>,
          result |-> IF resp.kind = "transport_error"
                     THEN JsonErr(Error("TransportError", ""))
                     ELSE IF resp.kind = "not_json"
                     THEN JsonErr(Error("ParseError", ""))
                     ELSE IF OAuth2Error_from_response_ok(resp.json)
                     THEN JsonErr(Error("ProviderError", Unwrap(resp.json.error)))
                     ELSE JsonOk(resp.json) ]

(* A faulty variant: redirect_uri is left out of the token request. *)
request_token_without_redirect(p, c, code, resp, t) ==
    LET body_pairs == << <<"grant_type", <<"authorization_code">> >>,
                         <<"code", code>> >>
        post == post_token(p, c, body_pairs, resp)
    IN  [ sent   |-> post.sent,
          result |-> IF post.result.ok THEN from_response(p, post.result.json, t)
                     ELSE Err(post.result.err) ]

(* A faulty variant: a body the token variant rejects yields a token with defaults. *)
request_token_default_on_error(p, c, code, resp, t) ==
    LET body_pairs == << <<"grant_type", <<"authorization_code">> >>,
                         <<"code", code>> >>
                      \o (IF IsSome(c.redirect_uri)
                          THEN << <<"redirect_uri", Unwrap(c.redirect_uri)>> >>
                          ELSE << >>)
        post == post_token(p, c, body_pairs, resp)
        made == from_response(p, post.result.json, t)
    IN  [ sent   |-> post.sent,
          result |-> IF post.result.ok
                     THEN IF made.ok THEN made
                          ELSE Ok_token(Bearer("", ExpiringLifetime(t, << >>)))
                     ELSE Err(post.result.err) ]

(* Client::request_token *)
request_token(p, c, code, resp, t) ==
    LET body_pairs == << <<"grant_type", <<"authorization_code">> >>,
                         <<"code", code>> >>
                      \o (IF IsSome(c.redirect_uri)
                          THEN << <<"redirect_uri", Unwrap(c.redirect_uri)>> >>
                          ELSE << >>)
        post == post_token(p, c, body_pairs, resp)
    IN  [ sent   |-> post.sent,
          result |-> IF post.result.ok THEN from_response(p, post.result.json, t)
                     ELSE Err(post.result.err) ]

(* A faulty variant: the refresh operations are offered for every provider. *)
refresh_callable_any(p) == TRUE

(* impl<P: Provider> Client<P> where P::Token: Token<Expiring> *)
refresh_callable(p) == p.lifetime = "Expiring"

(* A faulty variant: a failed refresh hands the old token back. *)
refresh_token_keeps_old_on_error(p, c, token, scope, resp, t) ==
    LET body_pairs == << <<"grant_type", <<"refresh_token">> >>,
                         <<"refresh_token", token.lifetime.refresh_token>> >>
                      \o (IF IsSome(scope) THEN << <<"scope", Unwrap(scope)>> >>
                          ELSE << >>)
        post == post_token(p, c, body_pairs, resp)
    IN  [ sent   |-> post.sent,
          result |-> IF post.result.ok
                     THEN from_response_inherit(p, post.result.json, t, token)
                     ELSE Ok_token(token) ]

(* A faulty variant: the access token is sent in place of the refresh secret. *)
refresh_token_sends_access_token(p, c, token, scope, resp, t) ==
    LET body_pairs == << <<"grant_type", <<"refresh_token">> >>,
                         <<"refresh_token", <<token.access_token>> >> >>
                      \o (IF IsSome(scope) THEN << <<"scope", Unwrap(scope)>> >>
                          ELSE << >>)
        post == post_token(p, c, body_pairs, resp)
    IN  [ sent   |-> post.sent,
          result |-> IF post.result.ok
                     THEN from_response_inherit(p, post.result.json, t, token)
                     ELSE Err(post.result.err) ]

(* A faulty variant: the refresh response is parsed without the previous token. *)
refresh_token_no_inherit(p, c, token, scope, resp, t) ==
    LET body_pairs == << <<"grant_type", <<"refresh_token">> >>,
                         <<"refresh_token", token.lifetime.refresh_token>> >>
                      \o (IF IsSome(scope) THEN << <<"scope", Unwrap(scope)>> >>
                          ELSE << >>)
        post == post_token(p, c, body_pairs, resp)
    IN  [ sent   |-> post.sent,
          result |-> IF post.result.ok
                     THEN from_response(p, post.result.json, t)
                     ELSE Err(post.result.err) ]

(* Client::refresh_token *)
refresh_token(p, c, token, scope, resp, t) ==
    LET body_pairs == << <<"grant_type", <<"refresh_token">> >>,
                         <<"refresh_token", token.lifetime.refresh_token>> >>
                      \o (IF IsSome(scope) THEN << <<"scope", Unwrap(scope)>> >>
                          ELSE << >>)
        post == post_token(p, c, body_pairs, resp)
    IN  [ sent   |-> post.sent,
          result |-> IF post.result.ok
                     THEN from_response_inherit(p, post.result.json, t, token)
                     ELSE Err(post.result.err) ]

(* A faulty variant: the token is refreshed whether it is expired or not. *)
ensure_token_always_refresh(p, c, token, resp, t) ==
    refresh_token(p, c, token, None, resp, t)

(* A faulty variant: the test of expired() is inverted. *)
ensure_token_inverted(p, c, token, resp, t) ==
    IF ~expired(token.lifetime, t) THEN refresh_token(p, c, token, None, resp, t)
    ELSE [sent |-> << >>, result |-> Ok_token(token)]

(* A faulty variant: the refresh is asked with a scope. *)
ensure_token_with_scope(p, c, token, resp, t) ==
    IF expired(token.lifetime, t)
    THEN refresh_token(p, c, token, Some(<<"x", " ", "y">>), resp, t)
    ELSE [sent |-> << >>, result |-> Ok_token(token)]

(* A faulty variant: the token is refreshed only after its expiry instant has passed. *)
ensure_token_after_expiry(p, c, token, resp, t) ==
    IF token.lifetime.kind = "Expiring" /\ t > token.lifetime.expires
    THEN refresh_token(p, c, token, None, resp, t)
    ELSE [sent |-> << >>, result |-> Ok_token(token)]

(* Client::ensure_token *)
ensure_token(p, c, token, resp, t) ==
    IF expired(token.lifetime, t) THEN refresh_token(p, c, token, None, resp, t)
    ELSE [sent |-> << >>, result |-> Ok_token(token)]

(***************************************************************************)
(* The state: the provider binding, the client, the clock, the token the   *)
(* caller holds, and a record of the last call.  serverSecret (the last    *)
(* refresh secret the endpoint sent on the held token's chain),            *)
(* refreshSent (a refresh request was sent at some time) and streak (the   *)
(* number, up to 2, of ensure_token calls in a row with no time passing)   *)
(* are history variables.                                                  *)
(***************************************************************************)
Providers ==
    [ auth_uri : {ValidAuthUri}, token_uri : {TokenUri},
      credentials_in_body : BOOLEAN, lifetime : {"Expiring", "Static"} ]
    \cup { [ auth_uri |-> InvalidAuthUri, token_uri |-> TokenUri,
             credentials_in_body |-> FALSE, lifetime |-> "Static" ] }

(* Client::new *)
new(client_id, client_secret) ==
    [client_id |-> client_id, client_secret |-> client_secret, redirect_uri |-> None]

(* Client::redirect_uri *)
redirect_uri(c, r) == [c EXCEPT !.redirect_uri = Some(r)]

NoResult == Err(NoError)

Call(op, t, code, input, scope, state, resp, sent, result) ==
    [ op |-> op, time |-> t, code |-> code, input |-> input, scope |-> scope,
      state |-> state, response |-> resp, sent |-> sent, result |-> result ]

(* The callers that share one client, and the frame of a caller's call:   *)
(* the client it borrows (&self), its arguments and its local variables.  *)
Callers == {"caller1", "caller2"}

Frame(pc, self, call) == [pc |-> pc, self |-> self, call |-> call]

IdleFrame(c) ==
    Frame("idle", c, Call("idle", 0, None, None, None, None, None, << >>, NoResult))

Init ==
    /\ provider \in Providers
    /\ \E cr \in Credentials : client = new(cr[1], cr[2])
    /\ now = 0
    /\ held = None
    /\ serverSecret = None
    /\ refreshSent = FALSE
    /\ streak = 0
    /\ last = Call("new", 0, None, None, None, None, None, << >>, NoResult)
    /\ calls = [i \in Callers |-> IdleFrame(client)]

(* The builder is used while the client is being constructed. *)
RedirectUri ==
    /\ last.op = "new"
    /\ \E r \in RedirectUris : client' = redirect_uri(client, r)
    /\ calls' = [i \in Callers |-> IdleFrame(client')]
    /\ UNCHANGED <<provider, now, held, serverSecret, refreshSent, streak, last>>

AuthUri ==
    \E scope \in ScopeArgs, state \in StateArgs :
        /\ last' = Call("auth_uri", now, None, None, scope, state, None, << >>,
                        auth_uri(provider, client, scope, state))
        /\ streak' = 0
        /\ UNCHANGED <<provider, client, now, held, serverSecret, refreshSent, calls>>

RequestToken ==
    \E code \in Codes, resp \in Responses :
        \E r \in { request_token(provider, client, code, resp, now) } :
            /\ last' = Call("request_token", now, Some(code), None, None, None,
                            Some(resp), r.sent, r.result)
            /\ held' = IF r.result.ok THEN r.result.token ELSE held
            /\ serverSecret' = IF r.result.ok THEN resp.json.refresh_token
                               ELSE serverSecret
            /\ streak' = 0
            /\ UNCHANGED <<provider, client, now, refreshSent, calls>>

(* The token is passed by value: the caller keeps what the call returns. *)
RefreshToken ==
    /\ refresh_callable(provider)
    /\ IsSome(held)
    /\ \E scope \in ScopeArgs, resp \in Responses :
        \E r \in { refresh_token(provider, client, Unwrap(held), scope, resp, now) } :
            /\ last' = Call("refresh_token", now, None, held, scope, None,
                            Some(resp), r.sent, r.result)
            /\ held' = r.result.token
            /\ serverSecret' = IF ~r.result.ok THEN None
                               ELSE IF IsSome(resp.json.refresh_token)
                               THEN resp.json.refresh_token
                               ELSE serverSecret
            /\ refreshSent' = (refreshSent \/ r.sent # << >>)
            /\ streak' = 0
            /\ UNCHANGED <<provider, client, now, calls>>

EnsureToken ==
    /\ refresh_callable(provider)
    /\ IsSome(held)
    /\ \E resp \in Responses :
        \E r \in { ensure_token(provider, client, Unwrap(held), resp, now) } :
            /\ last' = Call("ensure_token", now, None, held, None, None,
                            IF r.sent = << >> THEN None ELSE Some(resp),
                            r.sent, r.result)
            /\ held' = r.result.token
            /\ serverSecret' = IF ~r.result.ok THEN None
                               ELSE IF r.sent # << >> /\ IsSome(resp.json.refresh_token)
                               THEN resp.json.refresh_token
                               ELSE serverSecret
            /\ refreshSent' = (refreshSent \/ r.sent # << >>)
            /\ streak' = IF streak < 2 THEN streak + 1 ELSE 2
            /\ UNCHANGED <<provider, client, now, calls>>

Tick ==
    /\ now < MaxTime
    /\ now' = now + 1
    /\ streak' = 0
    /\ UNCHANGED <<provider, client, held, serverSecret, refreshSent, last, calls>>

Next ==
    \/ RedirectUri
    \/ AuthUri
    \/ RequestToken
    \/ RefreshToken
    \/ EnsureToken
    \/ Tick

Spec == Init /\ [][Next]_vars

(***************************************************************************)
(* Concurrent calls on one client.  Every operation borrows the client     *)
(* (&self) and keeps its arguments, its request and the answer in its own  *)
(* frame; a call starts, other calls may start or return while it waits    *)
(* for the endpoint, and it returns with the answer to its own request.    *)
(***************************************************************************)
ConcTokens ==
    { Bearer("AT1", ExpiringLifetime(0, <<"R", "1">>)),
      Bearer("AT1", ExpiringLifetime(MaxTime + 1, <<"R", "2">>)) }

ConcResponses ==
    { [kind |-> "transport_error", json |-> NoFields],
      [kind |-> "json", json |-> [NoFields EXCEPT !.error = Some("invalid_grant")]],
      [kind |-> "json", json |-> FullFields],
      [kind |-> "json", json |-> [FullFields EXCEPT !.refresh_token = None]] }

(* What the operation `call.op` does for client c with the arguments of    *)
(* `call`, given the endpoint's answer.                                    *)
Run(p, c, call, resp, t) ==
    CASE call.op = "auth_uri" ->
            [sent |-> << >>, result |-> auth_uri(p, c, call.scope, call.state)]
      [] call.op = "request_token" ->
            request_token(p, c, Unwrap(call.code), resp, t)
      [] call.op = "refresh_token" ->
            refresh_token(p, c, Unwrap(call.input), call.scope, resp, t)
      [] call.op = "ensure_token" ->
            ensure_token(p, c, Unwrap(call.input), resp, t)

(* A faulty variant: the arguments are kept in one place shared by the     *)
(* calls, so a call works on those of another call that waits.             *)
frame_shared(cs, i) ==
    IF \E j \in Callers : j # i /\ cs[j].pc = "waiting"
    THEN cs[CHOOSE j \in Callers : j # i /\ cs[j].pc = "waiting"]
    ELSE cs[i]

(* The frame a call works on: its own. *)
frame(cs, i) == cs[i]

ConcInit ==
    /\ provider \in Providers
    /\ \E cr \in Credentials :
          client \in { new(cr[1], cr[2]) }
                     \cup { redirect_uri(new(cr[1], cr[2]), r) : r \in RedirectUris }
    /\ now = 0
    /\ held = None
    /\ serverSecret = None
    /\ refreshSent = FALSE
    /\ streak = 0
    /\ last = Call("new", 0, None, None, None, None, None, << >>, NoResult)
    /\ calls = [i \in Callers |-> IdleFrame(client)]

StartCall(i, call) ==
    /\ calls[i].pc = "idle"
    /\ calls' = [calls EXCEPT ![i] = Frame("waiting", client, call)]
    /\ UNCHANGED <<provider, client, now, held, serverSecret, refreshSent, streak, last>>

StartAuthUri ==
    \E i \in Callers, scope \in ScopeArgs, state \in StateArgs :
        StartCall(i, Call("auth_uri", now, None, None, scope, state, None, << >>, NoResult))

StartRequestToken ==
    \E i \in Callers, code \in Codes :
        StartCall(i, Call("request_token", now, Some(code), None, None, None, None,
                          << >>, NoResult))

StartRefreshToken ==
    /\ refresh_callable(provider)
    /\ \E i \in Callers, tok \in ConcTokens, scope \in ScopeArgs :
        StartCall(i, Call("refresh_token", now, None, Some(tok), scope, None, None,
                          << >>, NoResult))

StartEnsureToken ==
    /\ refresh_callable(provider)
    /\ \E i \in Callers, tok \in ConcTokens :
        StartCall(i, Call("ensure_token", now, None, Some(tok), None, None, None,
                          << >>, NoResult))

ReturnCall ==
    \E i \in Callers, resp \in ConcResponses :
        /\ calls[i].pc = "waiting"
        /\ \E r \in { Run(provider, frame(calls, i).self, frame(calls, i).call, resp, now) } :
              calls' = [calls EXCEPT ![i] =
                          Frame("done", calls[i].self,
                                [calls[i].call EXCEPT
                                    !.response = IF r.sent = << >> THEN None ELSE Some(resp),
                                    !.sent = r.sent,
                                    !.result = r.result])]
        /\ UNCHANGED <<provider, client, now, held, serverSecret, refreshSent, streak, last>>

ConcNext ==
    \/ StartAuthUri
    \/ StartRequestToken
    \/ StartRefreshToken
    \/ StartEnsureToken
    \/ ReturnCall

SpecConc == ConcInit /\ [][ConcNext]_vars

(***************************************************************************)
(* The reader of a URI or a form body: the query is split at "&", each     *)
(* parameter at its first "=", and the values are percent-decoded.         *)
(***************************************************************************)
HexChar(a, b) ==
    CASE <<a, b>> = <<"3", "A">> -> ":"
      [] <<a, b>> = <<"2", "F">> -> "/"
      [] <<a, b>> = <<"2", "6">> -> "&"
      [] <<a, b>> = <<"3", "D">> -> "="
      [] <<a, b>> = <<"2", "B">> -> "+"
      [] <<a, b>> = <<"2", "5">> -> "%"
      [] OTHER -> "?"

RECURSIVE percent_decode(_)
percent_decode(s) ==
    IF s = << >> THEN << >>
    ELSE IF Head(s) = "+" THEN <<" ">> \o percent_decode(Tail(s))
    ELSE IF Head(s) = "%" /\ Len(s) >= 3
    THEN <<HexChar(s[2], s[3])>> \o percent_decode(SubSeq(s, 4, Len(s)))
    ELSE <<Head(s)>> \o percent_decode(Tail(s))

RECURSIVE SplitOn(_, _)
SplitOn(s, sep) ==
    IF s = << >> THEN << << >> >>
    ELSE LET rest == SplitOn(Tail(s), sep)
         IN  IF Head(s) = sep THEN << << >> >> \o rest
             ELSE << <<Head(s)>> \o rest[1] >> \o Tail(rest)

(* One "name=value" parameter as <<name, value>>. *)
ParsePair(s) ==
    LET parts == SplitOn(s, "=")
    IN  IF Len(parts) = 2 /\ Len(parts[1]) = 1
        THEN <<parts[1][1], percent_decode(parts[2])>>
        ELSE <<"?", s>>

form_urlencoded_parse(s) ==
    IF s = << >> THEN << >>
    ELSE LET params == SplitOn(s, "&")
         IN  [i \in 1 .. Len(params) |-> ParsePair(params[i])]

(* The part of a URI before its "?", and its query parameters. *)
UriBase(u) == SplitOn(u, "?")[1]

UriQuery(u) ==
    LET parts == SplitOn(u, "?")
    IN  IF Len(parts) = 2 THEN form_urlencoded_parse(parts[2]) ELSE << <<"?", u>> >>

OptionalPair(name, o) == IF IsSome(o) THEN << <<name, Unwrap(o)>> >> ELSE << >>

(***************************************************************************)
(* C1: for every combination of redirect_uri set or unset, scope given or  *)
(* not and state given or not, the URI auth_uri returns is the provider's  *)
(* authorization URL followed by the query parameters response_type=code,  *)
(* client_id, then redirect_uri, scope and state (each only when present), *)
(* in this order and with no other parameter.                              *)
(***************************************************************************)
C1_AuthUriParameterOrder ==
    (last.op = "auth_uri" /\ Url_parse_ok(provider.auth_uri)) =>
        /\ last.result.ok
        /\ UriBase(last.result.uri) = provider.auth_uri
        /\ UriQuery(last.result.uri) =
              << <<"response_type", <<"code">> >>, <<"client_id", client.client_id>> >>
              \o OptionalPair("redirect_uri", client.redirect_uri)
              \o OptionalPair("scope", last.scope)
              \o OptionalPair("state", last.state)

C1_Witness ==
    /\ last.op = "auth_uri"
    /\ last.result.ok
    /\ IsSome(client.redirect_uri)
    /\ IsSome(last.scope)
    /\ IsSome(last.state)
    /\ Len(UriQuery(last.result.uri)) = 5

(***************************************************************************)
(* C2: ensure_token is idempotent on a token that is not expired: the call *)
(* returns the input token unchanged and sends no request, and a second    *)
(* call at the same time on the returned token does the same, whatever the *)
(* endpoint would have answered.                                           *)
(***************************************************************************)
C2_EnsureTokenIdempotent ==
    (last.op = "ensure_token" /\ ~expired(Unwrap(last.input).lifetime, last.time)) =>
        /\ last.sent = << >>
        /\ last.result = Ok_token(Unwrap(last.input))
        /\ held = last.input
        /\ \A resp \in Responses :
              ensure_token(provider, client, Unwrap(last.result.token), resp, last.time)
                 = [sent |-> << >>, result |-> Ok_token(Unwrap(last.input))]

C2_Witness ==
    /\ last.op = "ensure_token"
    /\ streak = 2
    /\ last.time = now
    /\ ~expired(Unwrap(last.input).lifetime, last.time)
    /\ last.result.ok

C4_ProviderErrorNeverYieldsToken ==
    (/\ last.op \in {"request_token", "refresh_token", "ensure_token"}
     /\ IsSome(last.response)
     /\ Unwrap(last.response).kind = "json"
     /\ IsSome(Unwrap(last.response).json.error)) =>
        /\ ~last.result.ok
        /\ last.result.token = None
        /\ last.result.err =
              Error("ProviderError", Unwrap(Unwrap(last.response).json.error))

C4_Witness ==
    /\ last.op = "request_token"
    /\ IsSome(last.response)
    /\ Unwrap(last.response).kind = "json"
    /\ IsSome(Unwrap(last.response).json.error)
    /\ IsSome(Unwrap(last.response).json.access_token)
    /\ IsSome(Unwrap(last.response).json.expires_in)
    /\ IsSome(Unwrap(last.response).json.refresh_token)
    /\ ~last.result.ok

(***************************************************************************)
(* C5: a refresh answered by a well-formed token response succeeds; the    *)
(* token it returns carries the refresh secret of the response when the    *)
(* response has one, and the refresh secret of the token passed in when    *)
(* the response omits it.  Hence the refresh secret of the token the       *)
(* caller holds is the last secret the endpoint sent on that token's chain *)
(* of request and refreshes.                                               *)
(***************************************************************************)
WellFormedRefreshBody(j) ==
    /\ j.error = None
    /\ IsSome(j.access_token) /\ Unwrap(j.access_token) # ""
    /\ IsSome(j.expires_in)
    /\ j.refresh_token # Some(<< >>)

RefreshSentIn(call) ==
    /\ call.op \in {"refresh_token", "ensure_token"}
    /\ call.sent # << >>

C5_InheritOnOmission ==
    /\ (/\ RefreshSentIn(last)
        /\ Unwrap(last.response).kind = "json"
        /\ WellFormedRefreshBody(Unwrap(last.response).json)) =>
          LET j == Unwrap(last.response).json
              R == Unwrap(last.input).lifetime.refresh_token
          IN  /\ last.result.ok
              /\ Unwrap(last.result.token).lifetime.refresh_token =
                    IF IsSome(j.refresh_token) THEN Unwrap(j.refresh_token) ELSE R
    /\ (IsSome(held) /\ Unwrap(held).lifetime.kind = "Expiring") =>
          serverSecret = Some(Unwrap(held).lifetime.refresh_token)

C5_Witness ==
    /\ last.op = "refresh_token"
    /\ last.result.ok
    /\ Unwrap(last.response).json.refresh_token = None
    /\ Unwrap(last.input).lifetime.refresh_token = <<"R", "2">>
    /\ Unwrap(held).lifetime.refresh_token = <<"R", "2">>
    /\ serverSecret = Some(<<"R", "2">>)

(***************************************************************************)
(* C6: a call of request_token or refresh_token sends exactly one POST, to *)
(* the provider's token endpoint, whatever the answer is (no retry after a *)
(* transport failure, a parse failure or a provider error), and a call of  *)
(* ensure_token sends at most one.                                         *)
(***************************************************************************)
C6_OnePostPerCall ==
    /\ last.op \in {"request_token", "refresh_token"} => Len(last.sent) = 1
    /\ last.op = "ensure_token" => Len(last.sent) <= 1
    /\ \A i \in 1 .. Len(last.sent) : last.sent[i].uri = provider.token_uri

C6_Witness ==
    /\ last.op = "refresh_token"
    /\ Unwrap(last.response).kind = "transport_error"
    /\ ~last.result.ok
    /\ Len(last.sent) = 1

(***************************************************************************)
(* C7: on an expired token ensure_token does what refresh_token(token,     *)
(* None) does: it sends the same single request, whose body has no scope   *)
(* field, and returns the same result; on a token that is not expired it   *)
(* returns the input token and sends nothing.                              *)
(***************************************************************************)
Names(pairs) == { pairs[i][1] : i \in 1 .. Len(pairs) }

C7_EnsureIsRefreshWithoutScope ==
    last.op = "ensure_token" =>
        IF expired(Unwrap(last.input).lifetime, last.time)
        THEN /\ IsSome(last.response)
             /\ [sent |-> last.sent, result |-> last.result] =
                   refresh_token(provider, client, Unwrap(last.input), None,
                                 Unwrap(last.response), last.time)
             /\ Len(last.sent) = 1
             /\ "scope" \notin Names(form_urlencoded_parse(last.sent[1].body))
        ELSE /\ last.sent = << >>
             /\ last.result = Ok_token(Unwrap(last.input))

C7_Witness ==
    /\ last.op = "ensure_token"
    /\ expired(Unwrap(last.input).lifetime, last.time)
    /\ last.result.ok
    /\ Len(last.sent) = 1

(***************************************************************************)
(* C8: an Expiring token is expired exactly from its expiry instant on     *)
(* (the instant itself included): ensure_token sends a refresh request     *)
(* when the time is at or after the expiry of its input and none before,   *)
(* and a token that is expired stays expired at every later time.          *)
(***************************************************************************)
C8_ExpiredFromExpiryInstantOn ==
    /\ last.op = "ensure_token" =>
          (last.sent # << >> <=> last.time >= Unwrap(last.input).lifetime.expires)
    /\ (IsSome(held) /\ Unwrap(held).lifetime.kind = "Expiring") =>
          /\ expired(Unwrap(held).lifetime, now) <=> now >= Unwrap(held).lifetime.expires
          /\ \A t \in now .. MaxTime + 1 :
                expired(Unwrap(held).lifetime, now) => expired(Unwrap(held).lifetime, t)

C8_Witness ==
    /\ last.op = "ensure_token"
    /\ last.time = Unwrap(last.input).lifetime.expires
    /\ last.sent # << >>
    /\ last.time > 0

(***************************************************************************)
(* C9: a token returned by request_token, refresh_token or ensure_token    *)
(* has a non-empty access_token and, when its lifetime is Expiring, a      *)
(* non-empty refresh secret; a call that fails returns no token.  The same *)
(* holds of the token the caller holds after any sequence of calls.        *)
(***************************************************************************)
WholeToken(tok) ==
    /\ tok.access_token # ""
    /\ tok.lifetime.kind = provider.lifetime
    /\ tok.lifetime.kind = "Expiring" => tok.lifetime.refresh_token # << >>

C9_NoPartialToken ==
    /\ last.op \in {"request_token", "refresh_token", "ensure_token"} =>
          IF last.result.ok
          THEN IsSome(last.result.token) /\ WholeToken(Unwrap(last.result.token))
          ELSE last.result.token = None /\ last.result.err # NoError
    /\ IsSome(held) => WholeToken(Unwrap(held))

C9_Witness ==
    /\ last.op = "request_token"
    /\ ~last.result.ok
    /\ Unwrap(last.response).kind = "json"
    /\ Unwrap(last.response).json.access_token = Some("AT1")
    /\ Unwrap(last.response).json.refresh_token = Some(<< >>)
    /\ IsSome(held)

(***************************************************************************)
(* C10: for a provider whose token has a Static lifetime neither           *)
(* refresh_token nor ensure_token can be called, so no refresh request is  *)
(* ever sent, and the token of such a provider is expired at no time.      *)
(***************************************************************************)
C10_NoRefreshForStatic ==
    provider.lifetime = "Static" =>
        /\ ~refreshSent
        /\ last.op \notin {"refresh_token", "ensure_token"}
        /\ \A i \in 1 .. Len(last.sent) :
              \A pr \in Names(form_urlencoded_parse(last.sent[i].body)) :
                  pr # "refresh_token"
        /\ IsSome(held) =>
              /\ Unwrap(held).lifetime = StaticLifetime
              /\ \A t \in 0 .. MaxTime + 1 : ~expired(Unwrap(held).lifetime, t)

C10_Witness ==
    /\ provider.lifetime = "Static"
    /\ IsSome(held)
    /\ now > last.time
    /\ last.op = "request_token"
    /\ last.result.ok

(***************************************************************************)
(* C11: every request sent to the token endpoint carries the Basic         *)
(* authorization header made of client_id and client_secret, whatever the  *)
(* provider's credential policy; its form body holds client_id and         *)
(* client_secret exactly when the provider wants the credentials in the    *)
(* body; and the body of request_token is grant_type=authorization_code,   *)
(* code, then redirect_uri only when it is set on the client.              *)
(***************************************************************************)
BodyCredentials ==
    IF provider.credentials_in_body
    THEN << <<"client_id", client.client_id>>,
            <<"client_secret", client.client_secret>> >>
    ELSE << >>

C11_TokenRequestShape ==
    \A i \in 1 .. Len(last.sent) :
        LET req  == last.sent[i]
            body == form_urlencoded_parse(req.body)
        IN  /\ req.authorization = [username |-> client.client_id,
                                    password |-> Some(client.client_secret)]
            /\ req.accept = "application/json"
            /\ req.content_type = "application/x-www-form-urlencoded"
            /\ "client_id" \in Names(body) <=> provider.credentials_in_body
            /\ "client_secret" \in Names(body) <=> provider.credentials_in_body
            /\ SubSeq(body, Len(body) - Len(BodyCredentials) + 1, Len(body))
                  = BodyCredentials
            /\ last.op = "request_token" =>
                  body = << <<"grant_type", <<"authorization_code">> >>,
                            <<"code", Unwrap(last.code)>> >>
                         \o OptionalPair("redirect_uri", client.redirect_uri)
                         \o BodyCredentials

C11_Witness ==
    /\ last.op = "request_token"
    /\ Len(last.sent) = 1
    /\ provider.credentials_in_body
    /\ IsSome(client.redirect_uri)
    /\ client.client_secret = <<"s", "=">>
    /\ Len(form_urlencoded_parse(last.sent[1].body)) = 5

(***************************************************************************)
(* C12: the body of a refresh request is grant_type=refresh_token, then    *)
(* refresh_token with the refresh secret of the token passed in, then      *)
(* scope only when one is given, then the body credentials when the        *)
(* provider wants them; and the secret sent is the refresh secret of the   *)
(* token the previous successful request_token or refresh_token returned,  *)
(* which is the last secret the endpoint sent.                             *)
(***************************************************************************)
C12_RefreshRequestShape ==
    [][ (last' # last /\ RefreshSentIn(last')) =>
          /\ Len(last'.sent) = 1
          /\ last'.input = held
          /\ form_urlencoded_parse(last'.sent[1].body) =
                << <<"grant_type", <<"refresh_token">> >>,
                   <<"refresh_token", Unwrap(held).lifetime.refresh_token>> >>
                \o OptionalPair("scope", last'.scope)
                \o BodyCredentials
          /\ serverSecret = Some(Unwrap(held).lifetime.refresh_token) ]_vars

C12_Witness ==
    /\ last.op = "refresh_token"
    /\ Len(last.sent) = 1
    /\ IsSome(last.scope)
    /\ provider.credentials_in_body
    /\ Unwrap(last.input).lifetime.refresh_token = <<"R", "2">>
    /\ Len(form_urlencoded_parse(last.sent[1].body)) = 5

(***************************************************************************)
(* C13: no call of auth_uri, request_token, refresh_token or ensure_token  *)
(* changes client_id, client_secret or redirect_uri, and in every          *)
(* interleaving of calls of several callers on one client the requests a   *)
(* call sent and its result are those the operation gives for the call's   *)
(* own arguments, the client's fields and the answer to its own request.   *)
(***************************************************************************)
OwnAnswer(call) ==
    IF IsSome(call.response) THEN Unwrap(call.response)
    ELSE [kind |-> "transport_error", json |-> NoFields]

RequiredFieldsPresent(j, op) ==
    /\ IsSome(j.access_token) /\ Unwrap(j.access_token) # ""
    /\ provider.lifetime = "Expiring" =>
          /\ IsSome(j.expires_in)
          /\ j.refresh_token # Some(<< >>)
          /\ op = "request_token" => IsSome(j.refresh_token)

ExpectedErrorKind(resp, op) ==
    IF resp.kind = "transport_error" THEN "TransportError"
    ELSE IF resp.kind = "not_json" THEN "ParseError"
    ELSE IF IsSome(resp.json.error) THEN "ProviderError"
    ELSE IF ~RequiredFieldsPresent(resp.json, op) THEN "TokenFormatError"
    ELSE ""

C14_OutcomeClassification ==
    (last.op \in {"request_token", "refresh_token", "ensure_token"}
     /\ IsSome(last.response)) =>
        LET resp == Unwrap(last.response)
            kind == ExpectedErrorKind(resp, last.op)
        IN  /\ last.result.err.kind = kind
            /\ last.result.ok <=> kind = ""
            /\ IsSome(last.result.token) <=> kind = ""
            /\ (kind = "" ) =>
                  Unwrap(last.result.token).access_token = Unwrap(resp.json.access_token)
            /\ (kind = "TokenFormatError" /\ ~IsSome(resp.json.access_token)) =>
                  last.result.err.detail = "MissingField"

C14_Witness ==
    /\ last.op = "request_token"
    /\ Unwrap(last.response).kind = "json"
    /\ Unwrap(last.response).json.access_token = None
    /\ IsSome(Unwrap(last.response).json.refresh_token)
    /\ last.result.err = Error("TokenFormatError", "MissingField")

(***************************************************************************)
(* C15: auth_uri sends nothing to the network, and it fails, with a URI    *)
(* error, exactly when the provider's authorization URL is not a valid     *)
(* URL; with a valid URL it succeeds for every client, scope and state.    *)
(***************************************************************************)
C15_AuthUriFailsOnlyOnBadProviderUrl ==
    /\ last.op = "auth_uri" =>
          /\ last.sent = << >>
          /\ last.response = None
          /\ last.result.ok <=> Url_parse_ok(provider.auth_uri)
          /\ ~last.result.ok => last.result.err = Error("UriError", "")
    /\ \A cr \in Credentials, r \in {None} \cup { Some(u) : u \in RedirectUris },
          scope \in ScopeArgs, state \in StateArgs :
          auth_uri(provider, [new(cr[1], cr[2]) EXCEPT !.redirect_uri = r],
                   scope, state).ok
             <=> Url_parse_ok(provider.auth_uri)

C15_Witness ==
    /\ last.op = "auth_uri"
    /\ ~last.result.ok
    /\ ~refreshSent
    /\ IsSome(last.scope)

(***************************************************************************)
(* C16: refresh_token and ensure_token take the token by value: when the   *)
(* refresh fails the result is the error alone, so the caller is handed    *)
(* back neither the old token nor its refresh secret, and when it succeeds *)
(* the result is a new token made from the server's answer and the token   *)
(* passed in is as it was.                                                 *)
(***************************************************************************)
C16_FailedRefreshReturnsOnlyError ==
    [][ (last' # last /\ RefreshSentIn(last')) =>
          /\ last'.input = held
          /\ IF last'.result.ok
             THEN /\ held' = last'.result.token
                  /\ last'.result.err = NoError
                  /\ Unwrap(last'.response).kind = "json"
                  /\ Unwrap(last'.response).json.error = None
                  /\ Some(Unwrap(last'.result.token).access_token)
                        = Unwrap(last'.response).json.access_token
             ELSE /\ last'.result.token = None
                  /\ held' = None
                  /\ last'.result.err.kind \in
                        {"TransportError", "ParseError", "ProviderError",
                         "TokenFormatError"}
                  /\ last'.result.uri = << >> ]_vars

C16_Witness ==
    /\ last.op = "ensure_token"
    /\ last.sent # << >>
    /\ ~last.result.ok
    /\ last.result.err.kind = "TokenFormatError"
    /\ held = None

(***************************************************************************)
(* C17: for one client the redirect_uri of the authorization URI and the   *)
(* redirect_uri of the request_token body agree: it is in the one exactly  *)
(* when it is in the other, with the same value, and a refresh request     *)
(* never has one.                                                          *)
(***************************************************************************)
ValuesOf(pairs, name) == { pairs[i][2] : i \in { k \in 1 .. Len(pairs) : pairs[k][1] = name } }

C17_RedirectUriConsistent ==
    /\ last.op = "request_token" =>
          /\ Len(last.sent) = 1
          /\ ValuesOf(form_urlencoded_parse(last.sent[1].body), "redirect_uri")
                = { Unwrap(o) : o \in {client.redirect_uri} \ {None} }
          /\ \A scope \in ScopeArgs, state \in StateArgs :
                LET uri == auth_uri(provider, client, scope, state)
                IN  uri.ok =>
                       ValuesOf(UriQuery(uri.uri), "redirect_uri")
                          = ValuesOf(form_urlencoded_parse(last.sent[1].body),
                                     "redirect_uri")
    /\ (last.op = "auth_uri" /\ last.result.ok) =>
          ValuesOf(UriQuery(last.result.uri), "redirect_uri")
             = { Unwrap(o) : o \in {client.redirect_uri} \ {None} }
    /\ RefreshSentIn(last) =>
          \A i \in 1 .. Len(last.sent) :
             ValuesOf(form_urlencoded_parse(last.sent[i].body), "redirect_uri") = {}

C17_Witness ==
    /\ last.op = "request_token"
    /\ IsSome(client.redirect_uri)
    /\ Url_parse_ok(provider.auth_uri)
    /\ ValuesOf(form_urlencoded_parse(last.sent[1].body), "redirect_uri")
          = { <<"u", ":", "/", "c">> }

(***************************************************************************)
(* C18: the URI auth_uri returns does not depend on client_secret: a       *)
(* client that differs only in its secret gets the same URI for the same   *)
(* scope and state, and no parameter of the URI is the secret.             *)
(***************************************************************************)
Secrets == { cr[2] : cr \in Credentials }

C18_AuthUriIndependentOfSecret ==
    (last.op = "auth_uri") =>
        /\ \A s \in Secrets :
              auth_uri(provider, [client EXCEPT !.client_secret = s],
                       last.scope, last.state) = last.result
        /\ last.result.ok =>
              /\ "client_secret" \notin Names(UriQuery(last.result.uri))
              /\ \A i \in 1 .. Len(UriQuery(last.result.uri)) :
                    UriQuery(last.result.uri)[i][2] # client.client_secret

C18_Witness ==
    /\ last.op = "auth_uri"
    /\ last.result.ok
    /\ client.client_secret = <<"s", "=">>
    /\ IsSome(client.redirect_uri)
    /\ IsSome(last.state)

=============================================================================
